---------------------------- MODULE Spec2Model ----------------------------
(***************************************************************************)
(* Educational Content Validator (VS Code extension).                      *)
(*                                                                         *)
(* The document text is a sequence of one-character strings.  Offsets are  *)
(* the 0-based offsets of JavaScript; inside the matchers positions are    *)
(* the 1-based indexes of TLA+ sequences (offset = index - 1).  Every      *)
(* regular expression of the source is modelled by an operator that        *)
(* computes what the regular expression engine computes on the text.       *)
(***************************************************************************)
EXTENDS Integers, Sequences, FiniteSets, TLC

(***************************************************************************)
(* Characters and strings                                                  *)
(***************************************************************************)
UpperCase ==
  <<"A", "B", "C", "D", "E", "F", "G", "H", "I", "J", "K", "L", "M",
    "N", "O", "P", "Q", "R", "S", "T", "U", "V", "W", "X", "Y", "Z">>

LowerCase ==
  <<"a", "b", "c", "d", "e", "f", "g", "h", "i", "j", "k", "l", "m",
    "n", "o", "p", "q", "r", "s", "t", "u", "v", "w", "x", "y", "z">>

DigitChars == <<"0", "1", "2", "3", "4", "5", "6", "7", "8", "9">>

Range(s) == {s[k] : k \in 1..Len(s)}

Min(S) == CHOOSE x \in S : \A y \in S : x <= y

Max(S) == CHOOSE x \in S : \A y \in S : x >= y

\* the least element of a set of indexes, 0 when the set is empty
MinOrZero(S) == IF S = {} THEN 0 ELSE Min(S)

\* the greatest element of a set of indexes, 0 when the set is empty
MaxOrZero(S) == IF S = {} THEN 0 ELSE Max(S)

\* the case folding of the regular expressions' i flag and of toLowerCase
UpperSet == Range(UpperCase)

LowerOf == [c \in UpperSet |-> LowerCase[CHOOSE k \in 1..26 : UpperCase[k] = c]]

Lower(c) == IF c \in UpperSet THEN LowerOf[c] ELSE c

LowerStr(s) == [k \in 1..Len(s) |-> Lower(s[k])]

DigitSet == Range(DigitChars)

IsDigit(c) == c \in DigitSet

\* \w
WordSet == Range(UpperCase) \cup Range(LowerCase) \cup Range(DigitChars) \cup {"_"}

IsWord(c) == c \in WordSet

\* \s
SpaceSet == {" ", "\t", "\n", "\r"}

IsSpace(c) == c \in SpaceSet

DigitValue == [c \in DigitSet |-> (CHOOSE k \in 1..10 : DigitChars[k] = c) - 1]

DigitVal(c) == DigitValue[c]

\* parseInt(digits, 10)
RECURSIVE ParseInt(_)
ParseInt(s) ==
  IF Len(s) = 0 THEN 0
  ELSE 10 * ParseInt(SubSeq(s, 1, Len(s) - 1)) + DigitVal(s[Len(s)])

\* String(n), `${n}`
RECURSIVE NumToStr(_)
NumToStr(n) ==
  IF n < 10 THEN <<DigitChars[n + 1]>>
  ELSE NumToStr(n \div 10) \o <<DigitChars[(n % 10) + 1]>>

PadWidth == 2

\* String(n).padStart(2, '0')
PadStart(n) ==
  LET s == NumToStr(n)
  IN IF Len(s) >= PadWidth THEN s
     ELSE [k \in 1..(PadWidth - Len(s)) |-> "0"] \o s

\* a literal of a case-insensitive regular expression at index i
HasAt(T, i, lit) ==
  /\ i >= 1
  /\ i + Len(lit) - 1 <= Len(T)
  /\ \A k \in 1..Len(lit) : Lower(T[i + k - 1]) = lit[k]

\* an exact (case-sensitive) occurrence of s at index i
HasExact(T, i, s) ==
  /\ i >= 1
  /\ i + Len(s) - 1 <= Len(T)
  /\ \A k \in 1..Len(s) : T[i + k - 1] = s[k]

\* String.prototype.indexOf as a 1-based index, 0 when s does not occur
IndexOf(T, s) == MinOrZero({i \in 1..(Len(T) + 1) : HasExact(T, i, s)})

\* String.prototype.includes
Includes(T, s) == IndexOf(T, s) # 0

\* first index >= from holding the character c, 0 when there is none
FirstChar(T, from, c) == MinOrZero({i \in from..Len(T) : T[i] = c})

\* \s* from index i: the first index >= i that holds no white space
RECURSIVE SkipWs(_, _)
SkipWs(T, i) == IF i > Len(T) \/ ~IsSpace(T[i]) THEN i ELSE SkipWs(T, i + 1)

\* \d+ from index i: the first index >= i that holds no digit
RECURSIVE SkipDigits(_, _)
SkipDigits(T, i) == IF i > Len(T) \/ ~IsDigit(T[i]) THEN i ELSE SkipDigits(T, i + 1)

\* \w+ from index i: the first index >= i that holds no word character
RECURSIVE SkipWord(_, _)
SkipWord(T, i) == IF i > Len(T) \/ ~IsWord(T[i]) THEN i ELSE SkipWord(T, i + 1)

\* String.prototype.substring(a, b) on 0-based offsets
Substring(T, a, b) == SubSeq(T, a + 1, b)

\* Literals of the regular expressions (lower case: the i flag folds case)
\* In comments a double quote of the source is written as a single quote.
LitImg == <<"<", "i", "m", "g">>

LitSrcAttr == <<"s", "r", "c", "=", "\"">>

LitScAttr == <<"s", "c", "=", "\"">>

LitFiles == <<"_", "f", "i", "l", "e", "s", "/">>

LitPng == <<".", "p", "n", "g">>

LitP == <<"<", "p">>

LitTotal ==
  <<"a", "l", "i", "g", "n", "=", "\"", "r", "i", "g", "h", "t", "\"", ">",
    "<", "b", ">", "(", "t", "o", "t", "a", "l", " ", "f", "o", "r", " ",
    "q", "u", "e", "s", "t", "i", "o", "n">>

LitMark == <<"m", "a", "r", "k">>

LitMarks == <<"m", "a", "r", "k", "s">>

LitTotalEnd == <<")", "<", "/", "b", ">", "<", "/", "p", ">">>

NoMatch == [ok |-> FALSE]

\* [^>]*?(?:a1|a2|..)='[^']*' from index `from`, followed by [^>]*> when
\* tail is TRUE.  attrs holds the alternatives with their =' suffix.  The
\* lazy quantifier settles on the smallest index p at which one of the
\* alternatives and everything after it matches; [^']* ends at the first
\* quote after the opening one, and [^>]* at the first > after that.

\* the first alternative that matches at p, 0 when none does
AttrAlt(T, p, attrs) == MinOrZero({a \in 1..Len(attrs) : HasAt(T, p, attrs[a])})

\* the index after the opening quote, for the alternative alt
AttrOpen(p, attrs, alt) == IF alt = 0 THEN 0 ELSE p + Len(attrs[alt])

\* the index of the closing quote
AttrClose(T, open) == IF open = 0 THEN 0 ELSE FirstChar(T, open, "\"")

\* the index of the last character of the match
AttrEnd(T, close, tail) ==
  IF close = 0 THEN 0
  ELSE IF tail THEN FirstChar(T, close + 1, ">") ELSE close

AttrMatch(open, close, end) ==
  IF end = 0 THEN NoMatch
  ELSE [ok |-> TRUE, open |-> open, close |-> close, end |-> end]

AttrClosed(T, open, close, tail) == AttrMatch(open, close, AttrEnd(T, close, tail))

AttrOpened(T, open, tail) == AttrClosed(T, open, AttrClose(T, open), tail)

\* the match with the attribute name at index p
AttrAt(T, p, attrs, tail) ==
  IF p = 0 THEN NoMatch
  ELSE AttrOpened(T, AttrOpen(p, attrs, AttrAlt(T, p, attrs)), tail)

\* the last index the lazy [^>]*? can reach: gt is the first > from `from`
AttrLast(T, gt) == IF gt = 0 THEN Len(T) ELSE gt - 1

AttrValue(T, from, attrs, tail) ==
  AttrAt(T, MinOrZero({p \in from..AttrLast(T, FirstChar(T, from, ">")) :
                         AttrAt(T, p, attrs, tail).ok}),
         attrs, tail)

\* /<img\s+[^>]*?ATTR='([^']*)'[^>]*>/gi at index i
ImgTagAt(T, i, attr) ==
  IF HasAt(T, i, LitImg) /\ i + 4 <= Len(T) /\ IsSpace(T[i + 4])
    THEN AttrValue(T, i + 5, <<attr>>, TRUE)
    ELSE NoMatch

\* the record pushed for the match m found at index i
ImageOf(T, i, m, sc) ==
  [fullMatch |-> SubSeq(T, i, m.end),
   src |-> SubSeq(T, m.open, m.close - 1),
   index |-> i - 1,
   hasScAttribute |-> sc]

\* the exec loop of a g-flagged tag expression, from index pos on
RECURSIVE ScanImages(_, _, _, _)
ImagesAfter(T, i, m, attr, sc) ==
  <<ImageOf(T, i, m, sc)>> \o ScanImages(T, m.end + 1, attr, sc)

ImagesFrom(T, i, attr, sc) ==
  IF i = 0 THEN <<>> ELSE ImagesAfter(T, i, ImgTagAt(T, i, attr), attr, sc)

ScanImages(T, pos, attr, sc) ==
  ImagesFrom(T, MinOrZero({i \in pos..Len(T) : ImgTagAt(T, i, attr).ok}), attr, sc)

findAllImages(T) ==
  ScanImages(T, 1, LitSrcAttr, FALSE) \o ScanImages(T, 1, LitScAttr, TRUE)

\* /(\w+)_files\/(\d+)\.png/gi at index i: the index of the last character
\* of the match, 0 when there is none.  \w+ is greedy and \w holds the
\* underscore, so it gives back to the last '_files/' that works.
FilesAt(T, j) ==
  /\ HasAt(T, j, LitFiles)
  /\ j + 7 <= Len(T)
  /\ IsDigit(T[j + 7])
  /\ HasAt(T, SkipDigits(T, j + 7), LitPng)

FilesEndFor(T, j) == IF j = 0 THEN 0 ELSE SkipDigits(T, j + 7) + 3

FilesRefEnd(T, i) ==
  IF i > Len(T) \/ ~IsWord(T[i]) THEN 0
  ELSE FilesEndFor(T, MaxOrZero({j \in (i + 1)..(SkipWord(T, i) - 1) : FilesAt(T, j)}))

\* the exec loop of filesRegex with the Set it fills: the distinct matched
\* strings, in the order of their first match
AddToSet(acc, f) == IF f \in Range(acc) THEN acc ELSE Append(acc, f)

RECURSIVE ScanFiles(_, _, _)
FilesAfter(T, i, e, acc) == ScanFiles(T, e + 1, AddToSet(acc, SubSeq(T, i, e)))

FilesFrom(T, i, acc) ==
  IF i = 0 THEN acc ELSE FilesAfter(T, i, FilesRefEnd(T, i), acc)

ScanFiles(T, pos, acc) ==
  FilesFrom(T, MinOrZero({i \in pos..Len(T) : FilesRefEnd(T, i) # 0}), acc)

\* The five typo expressions of findImageTagTypos, none with the g flag:
\*   1  /<im\s+[^>]*?(?:src|sc)='[^']*'/i
\*   2  /<imge\s+[^>]*?(?:src|sc)='[^']*'/i
\*   3  /<image\s+[^>]*?(?:src|sc)='[^']*'/i
\*   4  /<i mg\s+[^>]*?(?:src|sc)='[^']*'/i
\*   5  /<\s*img[^>]*?(?:s|sr|rc|scr)='[^']*'/i
TypoNames ==
  << <<"<", "i", "m">>,
     <<"<", "i", "m", "g", "e">>,
     <<"<", "i", "m", "a", "g", "e">>,
     <<"<", "i", " ", "m", "g">> >>

TypoAttrs ==
  << <<"s", "=", "\"">>, <<"s", "r", "=", "\"">>,
     <<"r", "c", "=", "\"">>, <<"s", "c", "r", "=", "\"">> >>

NumShapes == Len(TypoNames) + 1

\* shapes 1 to 4: the misspelt tag name, \s+, then the attribute
TypoNameAt(C, i, name) ==
  IF HasAt(C, i, name) /\ i + Len(name) <= Len(C) /\ IsSpace(C[i + Len(name)])
    THEN AttrValue(C, i + Len(name) + 1, <<LitSrcAttr, LitScAttr>>, FALSE)
    ELSE NoMatch

\* shape 5: <, \s*, img (at index j), then the misspelt attribute
TypoAttrAt(C, i, j) ==
  IF i <= Len(C) /\ C[i] = "<" /\ HasAt(C, j, <<"i", "m", "g">>)
    THEN AttrValue(C, j + 3, TypoAttrs, FALSE)
    ELSE NoMatch

TypoAt(C, i, k) ==
  IF k <= Len(TypoNames) THEN TypoNameAt(C, i, TypoNames[k])
  ELSE TypoAttrAt(C, i, SkipWs(C, i + 1))

TypoMatchOf(i, m) ==
  IF i = 0 THEN NoMatch
  ELSE [ok |-> TRUE, index |-> i - 1, length |-> m.end - i + 1]

TypoFrom(C, i, k) == TypoMatchOf(i, IF i = 0 THEN NoMatch ELSE TypoAt(C, i, k))

\* typoRegex.exec(contextText): the leftmost match, as 0-based index and length
TypoExec(C, k) ==
  TypoFrom(C, MinOrZero({i \in 1..Len(C) : TypoAt(C, i, k).ok}), k)

\* /<p\s+align='right'><b>\(Total for question\s*=\s*(\d+)\s*(mark|marks)\)<\/b><\/p>/gi
\* at index i.  Every quantified part is followed by a character it cannot
\* hold, so the match is found without backtracking, but for the alternative
\* mark|marks, which is tried in that order with the closing literal.

\* (mark|marks)\)<\/b><\/p> at index e, after the digits T[c..d-1]
MarkTerm(T, c, d, e) ==
  IF HasAt(T, e, LitMark) /\ HasAt(T, e + 4, LitTotalEnd)
    THEN [ok |-> TRUE, digits |-> SubSeq(T, c, d - 1),
          term |-> SubSeq(T, e, e + 3), end |-> e + 3 + Len(LitTotalEnd)]
  ELSE IF HasAt(T, e, LitMarks) /\ HasAt(T, e + 5, LitTotalEnd)
    THEN [ok |-> TRUE, digits |-> SubSeq(T, c, d - 1),
          term |-> SubSeq(T, e, e + 4), end |-> e + 4 + Len(LitTotalEnd)]
  ELSE NoMatch

\* (\d+)\s* from index c
MarkDigits(T, c, d) == IF d > c THEN MarkTerm(T, c, d, SkipWs(T, d)) ELSE NoMatch

\* =\s* at index b
MarkEquals(T, b) ==
  IF b <= Len(T) /\ T[b] = "="
    THEN MarkDigits(T, SkipWs(T, b + 1), SkipDigits(T, SkipWs(T, b + 1)))
    ELSE NoMatch

\* align='right'><b>\(Total for question\s* at index a
MarkHead(T, a) ==
  IF HasAt(T, a, LitTotal) THEN MarkEquals(T, SkipWs(T, a + Len(LitTotal)))
  ELSE NoMatch

MarkAt(T, i) ==
  IF HasAt(T, i, LitP) /\ i + 2 <= Len(T) /\ IsSpace(T[i + 2])
    THEN MarkHead(T, SkipWs(T, i + 2))
    ELSE NoMatch

MarkOf(T, i, m) ==
  [fullMatch |-> SubSeq(T, i, m.end),
   points |-> ParseInt(m.digits),
   term |-> LowerStr(m.term),
   index |-> i - 1]

RECURSIVE ScanMarks(_, _)
MarksAfter(T, i, m) == <<MarkOf(T, i, m)>> \o ScanMarks(T, m.end + 1)

MarksFrom(T, i) == IF i = 0 THEN <<>> ELSE MarksAfter(T, i, MarkAt(T, i))

ScanMarks(T, pos) == MarksFrom(T, MinOrZero({i \in pos..Len(T) : MarkAt(T, i).ok}))

findTotalQuestionMarks(T) == ScanMarks(T, 1)

\* isCorrectMarkUsage with the plural taken for every value but 1
isCorrectMarkUsage_ZeroPlural(points, term) ==
  \/ points = 1 /\ term = LitMark
  \/ points # 1 /\ term = LitMarks

isCorrectMarkUsage(points, term) ==
  \/ points = 1 /\ term = LitMark
  \/ points > 1 /\ term = LitMarks

getCorrectTerm(points) == IF points = 1 THEN LitMark ELSE LitMarks

TotalOpen ==
  <<"<", "p", " ", "a", "l", "i", "g", "n", "=", "\"", "r", "i", "g", "h",
    "t", "\"", ">", "<", "b", ">", "(", "T", "o", "t", "a", "l", " ", "f",
    "o", "r", " ", "q", "u", "e", "s", "t", "i", "o", "n", " ", "=", " ">>

createCorrectedText(points) ==
  TotalOpen \o NumToStr(points) \o <<" ">> \o getCorrectTerm(points) \o LitTotalEnd

\* Positions, ranges and diagnostics of the editor

\* TextDocument.positionAt adjusts an offset outside the text to the nearest
\* valid one.  The documents of the model hold no line break, so a position
\* is (line 0, character = offset) and is written as the offset.
positionAt(T, offset) ==
  IF offset < 0 THEN 0 ELSE IF offset > Len(T) THEN Len(T) ELSE offset

\* new vscode.Range(positionAt(a), positionAt(b)); offsets keeps the two
\* offsets as they were handed to positionAt
MakeRange(T, a, b) ==
  [start |-> positionAt(T, a), end |-> positionAt(T, b), offsets |-> <<a, b>>]

\* Range.contains(position): both ends are inclusive
RangeContains(r, pos) == r.start <= pos /\ pos <= r.end

getMatchRange(T, match) ==
  MakeRange(T, match.index, match.index + Len(match.fullMatch))

NoRange == [start |-> 0, end |-> 0, offsets |-> <<0, 0>>]

\* the arguments a fix link hands to the fixIssue command
NoTarget == [uri |-> "", range |-> NoRange, newText |-> <<>>]

NoCode == [value |-> "", target |-> NoTarget]

Source == "Educational Validator"

PlaceholderUri == "DOCUMENT_URI_PLACEHOLDER"

\* the mark rule's createDiagnostic
createDiagnostic(range, points) ==
  [range |-> range,
   message |-> [text |-> "Use <term> for <points> point<s>",
                args |-> <<getCorrectTerm(points), NumToStr(points),
                           IF points > 1 THEN <<"s">> ELSE <<>> >>],
   severity |-> "Warning",
   source |-> Source,
   code |-> [value |-> "fix-mark-marks",
             target |-> [uri |-> PlaceholderUri,
                         range |-> range,
                         newText |-> createCorrectedText(points)]]]

\* markRule.validate: the diagnostics it pushes onto the list
RECURSIVE MarkLoop(_, _, _, _)
MarkLoop(T, matches, k, diagnostics) ==
  IF k > Len(matches) THEN diagnostics
  ELSE LET match == matches[k]
       IN MarkLoop(T, matches, k + 1,
            IF ~isCorrectMarkUsage(match.points, match.term)
              THEN Append(diagnostics,
                          createDiagnostic(getMatchRange(T, match), match.points))
              ELSE diagnostics)

markRule_validate(T, diagnostics) ==
  MarkLoop(T, findTotalQuestionMarks(T), 1, diagnostics)

\* path.basename of the POSIX flavour: trailing slashes are dropped, then
\* what follows the last slash is kept
Basename(path) ==
  LET nonSlash == {i \in 1..Len(path) : path[i] # "/"}
  IN IF nonSlash = {} THEN <<>>
     ELSE LET e == Max(nonSlash)
              slashes == {i \in 1..e : path[i] = "/"}
          IN SubSeq(path, IF slashes = {} THEN 1 ELSE Max(slashes) + 1, e)

\* path.parse(fileName).name: the base name without its last extension
ParsedName(fileName) ==
  LET base == Basename(fileName)
      dots == {i \in 2..Len(base) : base[i] = "."}
  IN IF dots = {} THEN base ELSE SubSeq(base, 1, Max(dots) - 1)

FilesSuffix == <<"_", "f", "i", "l", "e", "s">>

expectedFolderName(fileName) == ParsedName(fileName) \o FilesSuffix

\* String.prototype.replace(pattern, replacement) with a string pattern: the
\* first occurrence only (the replacements of the model hold no $ sign)
ReplaceFirst(T, pattern, replacement) ==
  LET i == IndexOf(T, pattern)
  IN IF i = 0 THEN T
     ELSE SubSeq(T, 1, i - 1) \o replacement \o SubSeq(T, i + Len(pattern), Len(T))

ImgTagOpen == <<"<", "i", "m", "g", " ", "s", "r", "c", "=", "\"">>

ImgTagClose == <<"\"", ">">>

ContextChars == 50

WarningPad == 5

\* the loop over typoMatches, from shape k on: the match of the first shape
\* that matches the context (the loop breaks there)
RECURSIVE FirstTypo(_, _)
FirstTypo(contextText, k) ==
  IF k > NumShapes THEN NoMatch
  ELSE IF TypoExec(contextText, k).ok THEN TypoExec(contextText, k)
  ELSE FirstTypo(contextText, k + 1)

\* lines 124-150: the Error for a typo match
TypoDiagnostic(uri, range, correctTag) ==
  [range |-> range,
   message |-> [text |-> "Possible typo in image tag. Should be <tag>",
                args |-> <<correctTag>>],
   severity |-> "Error",
   source |-> Source,
   code |-> [value |-> "fix-image-tag-typo",
             target |-> [uri |-> uri, range |-> range, newText |-> correctTag]]]

TypoFound(T, uri, filePath, typoTagPosition, typoMatch) ==
  IF ~typoMatch.ok THEN <<>>
  ELSE <<TypoDiagnostic(uri,
           MakeRange(T, typoTagPosition, typoTagPosition + typoMatch.length),
           ImgTagOpen \o filePath \o ImgTagClose)>>

startSearchIndex(filePathIndex) == Max({0, filePathIndex - ContextChars})

endSearchIndex(T, filePath, filePathIndex) ==
  Min({Len(T), filePathIndex + Len(filePath) + ContextChars})

TypoInContext(T, uri, filePath, start, typoMatch) ==
  TypoFound(T, uri, filePath,
            IF typoMatch.ok THEN start + typoMatch.index ELSE 0, typoMatch)

\* lines 100-153 for one file path found at filePathIndex: the Error for the
\* first typo shape found in the context window, or no diagnostic
TypoError(T, uri, filePath, filePathIndex) ==
  TypoInContext(T, uri, filePath, startSearchIndex(filePathIndex),
    FirstTypo(Substring(T, startSearchIndex(filePathIndex),
                        endSearchIndex(T, filePath, filePathIndex)), 1))

\* lines 155-171: the general Warning around the file path
PathWarning(T, filePath, filePathIndex) ==
  [range |-> MakeRange(T, filePathIndex - WarningPad,
                       filePathIndex + Len(filePath) + WarningPad),
   message |-> [text |-> "File path found outside a proper <img> tag. Check for HTML syntax errors.",
                args |-> <<>>],
   severity |-> "Warning",
   source |-> Source,
   code |-> NoCode]

\* line 156: some diagnostic of the list contains the position
Covered(diagnostics, pos) ==
  \E k \in 1..Len(diagnostics) : RangeContains(diagnostics[k].range, pos)

WarnUnlessCovered(T, filePath, filePathIndex, diagnostics) ==
  IF ~Covered(diagnostics, positionAt(T, filePathIndex))
    THEN Append(diagnostics, PathWarning(T, filePath, filePathIndex))
    ELSE diagnostics

\* TypoStep without the test of line 95
TypoStep_NoTagCheck(T, uri, images, filePath, diagnostics) ==
  WarnUnlessCovered(T, filePath, IndexOf(T, filePath) - 1,
    diagnostics \o TypoError(T, uri, filePath, IndexOf(T, filePath) - 1))

\* the body of filesMatches.forEach for one file path
TypoStep(T, uri, images, filePath, diagnostics) ==
  IF \E k \in 1..Len(images) : Includes(images[k].src, filePath)
    THEN diagnostics
    ELSE WarnUnlessCovered(T, filePath, IndexOf(T, filePath) - 1,
           diagnostics \o TypoError(T, uri, filePath, IndexOf(T, filePath) - 1))

RECURSIVE TypoLoop(_, _, _, _, _, _)
TypoLoop(T, uri, images, filesMatches, k, diagnostics) ==
  IF k > Len(filesMatches) THEN diagnostics
  ELSE TypoLoop(T, uri, images, filesMatches, k + 1,
                TypoStep(T, uri, images, filesMatches[k], diagnostics))

findImageTagTypos(T, uri, images, diagnostics) ==
  TypoLoop(T, uri, images, ScanFiles(T, 1, <<>>), 1, diagnostics)

\* lines 190-217: the Warning for an image outside the expected folder
FolderDiagnostic(T, uri, image, expectedFolder) ==
  LET srcPath == image.src
      range == getMatchRange(T, image)
      imageName == Basename(srcPath)
      correctedSrc == expectedFolder \o <<"/">> \o imageName
      correctedTag == ReplaceFirst(image.fullMatch, srcPath, correctedSrc)
  IN [range |-> range,
      message |-> [text |-> "Image source should be in <folder> folder",
                   args |-> <<expectedFolder>>],
      severity |-> "Warning",
      source |-> Source,
      code |-> IF ~image.hasScAttribute
                 THEN [value |-> "fix-image-folder",
                       target |-> [uri |-> uri, range |-> range,
                                   newText |-> correctedTag]]
                 ELSE NoCode]

\* FolderStep without the test that the path is not empty
FolderStep_NoEmptyGuard(T, uri, image, expectedFolder, diagnostics) ==
  IF ~Includes(image.src, expectedFolder)
    THEN Append(diagnostics, FolderDiagnostic(T, uri, image, expectedFolder))
    ELSE diagnostics

\* the body of images.forEach in validateFolderNames for one image
FolderStep(T, uri, image, expectedFolder, diagnostics) ==
  IF image.src # <<>> /\ ~Includes(image.src, expectedFolder)
    THEN Append(diagnostics, FolderDiagnostic(T, uri, image, expectedFolder))
    ELSE diagnostics

RECURSIVE FolderLoop(_, _, _, _, _, _)
FolderLoop(T, uri, images, expectedFolder, k, diagnostics) ==
  IF k > Len(images) THEN diagnostics
  ELSE FolderLoop(T, uri, images, expectedFolder, k + 1,
                  FolderStep(T, uri, images[k], expectedFolder, diagnostics))

validateFolderNames(T, uri, images, expectedFolder, diagnostics) ==
  FolderLoop(T, uri, images, expectedFolder, 1, diagnostics)

\* /\/(\d+)\./.exec(srcPath): the digits of the leftmost match, <<>> when
\* there is none (a match holds at least one digit)
NumberDigits(srcPath) ==
  LET Works(i) ==
        /\ srcPath[i] = "/"
        /\ i + 1 <= Len(srcPath) /\ IsDigit(srcPath[i + 1])
        /\ SkipDigits(srcPath, i + 1) <= Len(srcPath)
        /\ srcPath[SkipDigits(srcPath, i + 1)] = "."
      S == {i \in 1..Len(srcPath) : Works(i)}
  IN IF S = {} THEN <<>>
     ELSE SubSeq(srcPath, Min(S) + 1, SkipDigits(srcPath, Min(S) + 1) - 1)

\* the indexes of the images that carry a number, in list order
Numbered(images) ==
  SelectSeq([k \in 1..Len(images) |-> k], LAMBDA k : NumberDigits(images[k].src) # <<>>)

\* imageNumbers: the numbers pushed by the first forEach
imageNumbersOf(images) ==
  LET idx == Numbered(images)
  IN [j \in 1..Len(idx) |-> ParseInt(NumberDigits(images[idx[j]].src))]

\* imageMapGet with the first image that set the number kept
imageMapGet_First(images, number) ==
  LET idx == Numbered(images)
  IN images[Min({idx[j] : j \in {j \in 1..Len(idx) :
                   ParseInt(NumberDigits(images[idx[j]].src)) = number}})]

\* imageMap.get(number): the last image that set the number
imageMapGet(images, number) ==
  LET idx == Numbered(images)
  IN images[Max({idx[j] : j \in {j \in 1..Len(idx) :
                   ParseInt(NumberDigits(images[idx[j]].src)) = number}})]

\* [...imageNumbers].sort((a, b) => a - b)
RECURSIVE SortNumbers(_)
SortNumbers(nums) ==
  IF Len(nums) = 0 THEN <<>>
  ELSE LET m == Min(Range(nums))
           k == Min({j \in 1..Len(nums) : nums[j] = m})
       IN <<m>> \o SortNumbers(SubSeq(nums, 1, k - 1) \o SubSeq(nums, k + 1, Len(nums)))

\* the integer keys of an object, as Object.entries lists them
RECURSIVE AscendingKeys(_)
AscendingKeys(S) ==
  IF S = {} THEN <<>> ELSE <<Min(S)>> \o AscendingKeys(S \ {Min(S)})

CountOf(nums, n) == Cardinality({j \in 1..Len(nums) : nums[j] = n})

NumberingDiag(T, image, severity, text, args) ==
  [range |-> getMatchRange(T, image),
   message |-> [text |-> text, args |-> args],
   severity |-> severity,
   source |-> Source,
   code |-> NoCode]

\* lines 252-278: Object.entries(counts) lists the integer keys in ascending
\* order; keys is that list
RECURSIVE DuplicateLoop(_, _, _, _, _)
DuplicateLoop(T, images, keys, k, diagnostics) ==
  IF k > Len(keys) THEN diagnostics
  ELSE LET num == keys[k]
           count == CountOf(imageNumbersOf(images), num)
       IN DuplicateLoop(T, images, keys, k + 1,
            IF count > 1
              THEN Append(diagnostics,
                     NumberingDiag(T, imageMapGet(images, num), "Error",
                       "Duplicate image number: <num> is used <count> times",
                       <<NumToStr(num), NumToStr(count)>>))
              ELSE diagnostics)

DuplicateCheck(T, images, diagnostics) ==
  LET imageNumbers == imageNumbersOf(images)
      uniqueNumbers == Range(imageNumbers)
  IN IF Cardinality(uniqueNumbers) # Len(imageNumbers)
       THEN DuplicateLoop(T, images, AscendingKeys(uniqueNumbers), 1, diagnostics)
       ELSE diagnostics

\* lines 280-299
StartCheck(T, images, diagnostics) ==
  LET sortedNumbers == SortNumbers(imageNumbersOf(images))
      firstNumber == sortedNumbers[1]
  IN IF firstNumber # 1
       THEN Append(diagnostics,
              NumberingDiag(T, imageMapGet(images, firstNumber), "Warning",
                "Image numbering should start with 01, found <found>",
                <<PadStart(firstNumber)>>))
       ELSE diagnostics

\* SequenceLoop that takes an equal id for no gap
RECURSIVE SequenceLoop_SkipEqual(_, _, _, _, _)
SequenceLoop_SkipEqual(T, images, sortedNumbers, i, diagnostics) ==
  IF i > Len(sortedNumbers) THEN diagnostics
  ELSE LET currentNum == sortedNumbers[i]
       IN SequenceLoop_SkipEqual(T, images, sortedNumbers, i + 1,
            IF i > 1 /\ currentNum > sortedNumbers[i - 1] + 1
              THEN Append(diagnostics,
                     NumberingDiag(T, imageMapGet(images, currentNum), "Warning",
                       "Image numbering is not sequential. Expected <expected>, found <found>",
                       <<PadStart(sortedNumbers[i - 1] + 1), PadStart(currentNum)>>))
              ELSE diagnostics)

\* lines 301-321
RECURSIVE SequenceLoop(_, _, _, _, _)
SequenceLoop(T, images, sortedNumbers, i, diagnostics) ==
  IF i > Len(sortedNumbers) THEN diagnostics
  ELSE LET currentNum == sortedNumbers[i]
       IN SequenceLoop(T, images, sortedNumbers, i + 1,
            IF i > 1 /\ currentNum # sortedNumbers[i - 1] + 1
              THEN Append(diagnostics,
                     NumberingDiag(T, imageMapGet(images, currentNum), "Warning",
                       "Image numbering is not sequential. Expected <expected>, found <found>",
                       <<PadStart(sortedNumbers[i - 1] + 1), PadStart(currentNum)>>))
              ELSE diagnostics)

validateImageNumbering(T, images, diagnostics) ==
  IF Len(imageNumbersOf(images)) = 0 THEN diagnostics
  ELSE SequenceLoop(T, images, SortNumbers(imageNumbersOf(images)), 1,
         StartCheck(T, images, DuplicateCheck(T, images, diagnostics)))

imageRule_validate(T, doc, diagnostics) ==
  LET images == findAllImages(T)
      typos == findImageTagTypos(T, doc.uri, images, diagnostics)
  IN IF Len(images) = 0 THEN typos
     ELSE validateImageNumbering(T, images,
            validateFolderNames(T, doc.uri, images,
                                expectedFolderName(doc.fileName), typos))

\* String.prototype.endsWith
EndsWith(s, suffix) ==
  Len(s) >= Len(suffix) /\ SubSeq(s, Len(s) - Len(suffix) + 1, Len(s)) = suffix

isHtmlLike(doc) ==
  \/ doc.languageId = "html"
  \/ doc.languageId = "php"
  \/ EndsWith(doc.fileName, <<".", "h", "t", "m", "l">>)
  \/ EndsWith(doc.fileName, <<".", "h", "t", "m">>)

\* the list validateDocument hands to diagnosticsCollection.set
ruleDiagnostics(T, doc) ==
  imageRule_validate(T, doc, markRule_validate(T, <<>>))

\* The editor: one document, its text, and the diagnostics collection
VARIABLES
  doc,          \* the document: fileName, languageId, uri
  text,         \* document.getText()
  isOpen,       \* the document is open in the editor
  hasEntry,     \* diagnosticsCollection holds an entry for doc.uri
  diagnostics,  \* that entry
  edits         \* the number of edits made to the text so far

vars == <<doc, text, isOpen, hasEntry, diagnostics, edits>>

\* Bounds of the model
MaxEdits == 2

MaxPoints == 2

FillerLen == 48

\* The documents and the pieces of text an edit can type
HtmlDoc ==
  [fileName |-> <<"/", "w", "/", "a", ".", "h", "t", "m", "l">>,
   languageId |-> "html",
   uri |-> "file:///w/a.html"]

TextDoc ==
  [fileName |-> <<"/", "w", "/", "a", ".", "t", "x", "t">>,
   languageId |-> "plaintext",
   uri |-> "file:///w/a.txt"]

Documents == {HtmlDoc, TextDoc}

FolderA == <<"a", "_", "f", "i", "l", "e", "s", "/">>

FolderB == <<"b", "_", "f", "i", "l", "e", "s", "/">>

Tag(open, path) == open \o path \o ImgTagClose

ImageSegments ==
  { Tag(ImgTagOpen, FolderA \o <<"0", "1">> \o LitPng),
    Tag(ImgTagOpen, FolderA \o <<"0", "2">> \o LitPng),
    Tag(ImgTagOpen, FolderB \o <<"0", "4">> \o LitPng),
    Tag(<<"<", "I", "M", "G", " ", "a", "l", "t", "=", "\"", "x", "\"", " ", "S", "C", "=", "\"">>,
        <<"x", "/", "0", "2">> \o LitPng),
    Tag(ImgTagOpen, <<>>),
    Tag(<<"<", "i", "m", "g", " ", "a", "l", "t", "=", "\"", "q", "\"", " ", "s", "r", "c", "=", "\"">>,
        <<"q">>),
    Tag(<<"<", "i", "m", " ", "s", "r", "c", "=", "\"">>, FolderA \o <<"0", "3">> \o LitPng),
    FolderA \o <<"0", "5">> \o LitPng,
    [k \in 1..FillerLen |-> "-"] \o FolderA \o <<"0", "6">> \o LitPng }

Annotation(points, term) ==
  TotalOpen \o NumToStr(points) \o <<" ">> \o term \o LitTotalEnd

AnnotationSegments ==
  {Annotation(n, t) : n \in 0..MaxPoints, t \in {LitMark, LitMarks}}

Segments == ImageSegments \cup AnnotationSegments

\* WorkspaceEdit.replace(uri, range, newText) applied to the text
ApplyEdit(T, range, newText) ==
  SubSeq(T, 1, range.start) \o newText \o SubSeq(T, range.end + 1, Len(T))

\* validateDocument(document, diagnosticsCollection) on the text T
validateDocument(T) ==
  IF ~isHtmlLike(doc)
    THEN UNCHANGED <<hasEntry, diagnostics>>
    ELSE /\ hasEntry' = TRUE
         /\ diagnostics' = ruleDiagnostics(T, doc)

Init ==
  /\ doc \in Documents
  /\ text = <<>>
  /\ isOpen = FALSE
  /\ hasEntry = FALSE
  /\ diagnostics = <<>>
  /\ edits = 0

\* onDidOpenTextDocument
OpenDocument ==
  /\ ~isOpen
  /\ isOpen' = TRUE
  /\ validateDocument(text)
  /\ UNCHANGED <<doc, text, edits>>

\* the user types a piece of text at the end; onDidChangeTextDocument
ChangeDocument ==
  /\ isOpen
  /\ edits < MaxEdits
  /\ \E seg \in Segments : text' = text \o seg
  /\ edits' = edits + 1
  /\ validateDocument(text')
  /\ UNCHANGED <<doc, isOpen>>

\* the fixIssue command, run from the fix link of a diagnostic; an edit of
\* the document fires onDidChangeTextDocument, an edit that names another
\* resource leaves the document as it is
FixIssue ==
  /\ isOpen
  /\ hasEntry
  /\ edits < MaxEdits
  /\ \E k \in 1..Len(diagnostics) :
       LET target == diagnostics[k].code.target
       IN /\ diagnostics[k].code.value # ""
          /\ IF target.uri = doc.uri
               THEN /\ text' = ApplyEdit(text, target.range, target.newText)
                    /\ edits' = edits + 1
                    /\ validateDocument(text')
               ELSE UNCHANGED <<text, edits, hasEntry, diagnostics>>
  /\ UNCHANGED <<doc, isOpen>>

\* onDidCloseTextDocument
CloseDocument ==
  /\ isOpen
  /\ isOpen' = FALSE
  /\ hasEntry' = FALSE
  /\ diagnostics' = <<>>
  /\ UNCHANGED <<doc, text, edits>>

Next ==
  \/ OpenDocument
  \/ ChangeDocument
  \/ FixIssue
  \/ CloseDocument

Spec == Init /\ [][Next]_vars

\* ---------------------------------------------------------------------
\* Vocabulary of the properties
\* ---------------------------------------------------------------------
Indexes(seq) == 1..Len(seq)

Images == findAllImages(text)

Marks == findTotalQuestionMarks(text)

ExpectedFolder == expectedFolderName(doc.fileName)

IsMarkDiag(d) == d.message.text = "Use <term> for <points> point<s>"

IsTypoError(d) == d.message.text = "Possible typo in image tag. Should be <tag>"

IsPathWarning(d) ==
  d.message.text = "File path found outside a proper <img> tag. Check for HTML syntax errors."

IsFolderDiag(d) == d.message.text = "Image source should be in <folder> folder"

IsDuplicateDiag(d) ==
  d.message.text = "Duplicate image number: <num> is used <count> times"

IsGapDiag(d) ==
  d.message.text = "Image numbering is not sequential. Expected <expected>, found <found>"

\* the span of a match, as the offsets of its first character and of the
\* character after its last
SpanOf(match) == <<match.index, match.index + Len(match.fullMatch)>>

\* the grammar rule of the grading annotation
GrammarHolds(value, unit) ==
  \/ value = 1 /\ unit = LitMark
  \/ value > 1 /\ unit = LitMarks

\* the annotation of the text that starts at an offset, as a set of matches
MarksAtOffset(T, offset) ==
  {m \in Range(findTotalQuestionMarks(T)) : m.index = offset}

\* C1: applying the fix of a grading-annotation diagnostic gives a text whose
\* annotation at that place, extracted again, passes isCorrectUsage
C1_FixIdempotentMarks ==
  hasEntry =>
    \A k \in Indexes(diagnostics) :
      IsMarkDiag(diagnostics[k]) =>
        LET d == diagnostics[k]
            fixed == ApplyEdit(text, d.range, d.code.target.newText)
        IN /\ MarksAtOffset(fixed, d.range.start) # {}
           /\ \A m \in MarksAtOffset(fixed, d.range.start) :
                isCorrectMarkUsage(m.points, m.term)

\* the annotations that break the grammar rule are those isCorrectUsage
\* rejects and those with a diagnostic of the mark rule
AnnotationsReported(marks, diags) ==
  \A j \in Indexes(marks) :
    /\ isCorrectMarkUsage(marks[j].points, marks[j].term)
         <=> GrammarHolds(marks[j].points, marks[j].term)
    /\ marks[j].points = 0 => ~isCorrectMarkUsage(marks[j].points, marks[j].term)
    /\ GrammarHolds(marks[j].points, marks[j].term)
         <=> ~\E k \in Indexes(diags) :
                /\ IsMarkDiag(diags[k])
                /\ diags[k].range.offsets = SpanOf(marks[j])

\* C7: an annotation is reported exactly when its value and unit break the
\* grammar rule: isCorrectUsage(value, unit) is true iff (value = 1 and
\* unit = mark) or (value > 1 and unit = marks); it is false for value 0
C7_IsCorrectUsage == hasEntry => AnnotationsReported(Marks, diagnostics)

\* a validated text with an annotation of value 0 and a correct annotation
C7_Witness ==
  /\ hasEntry
  /\ \E j \in Indexes(Marks) : Marks[j].points = 0
  /\ \E j \in Indexes(Marks) : Marks[j].points > 1 /\ Marks[j].term = LitMarks
  /\ \E k \in Indexes(diagnostics) : IsMarkDiag(diagnostics[k])

\* every occurrence of a <name>_files/<digits>.png reference in the text, in
\* scan order, with the index of its first character
RECURSIVE RefsFrom(_, _)
RefsFrom(T, pos) ==
  LET i == MinOrZero({j \in pos..Len(T) : FilesRefEnd(T, j) # 0})
  IN IF i = 0 THEN <<>>
     ELSE <<[index |-> i - 1, path |-> SubSeq(T, i, FilesRefEnd(T, i))]>>
          \o RefsFrom(T, FilesRefEnd(T, i) + 1)

References == RefsFrom(text, 1)

\* a reference that no extracted match accounts for
Unaccounted(ref) == ~\E j \in Indexes(Images) : Includes(Images[j].src, ref.path)

\* the 50-character window around a reference
WindowOf(ref) ==
  Substring(text, Max({0, ref.index - ContextChars}),
            Min({Len(text), ref.index + Len(ref.path) + ContextChars}))

ShapesIn(C) == {k \in 1..NumShapes : TypoExec(C, k).ok}

CanonicalTag(path) == ImgTagOpen \o path \o ImgTagClose

\* the Errors that quote the canonical tag of a path
ErrorsFor(path) ==
  {k \in Indexes(diagnostics) :
     /\ IsTypoError(diagnostics[k])
     /\ diagnostics[k].message.args = <<CanonicalTag(path)>>}

\* the Warnings around a reference
WarningsAt(ref) ==
  {k \in Indexes(diagnostics) :
     /\ IsPathWarning(diagnostics[k])
     /\ diagnostics[k].range.offsets =
          <<ref.index - WarningPad, ref.index + Len(ref.path) + WarningPad>>}

\* the span of the first typo shape in the window of a reference
FirstShapeSpan(ref) ==
  LET start == Max({0, ref.index - ContextChars})
      m == TypoExec(WindowOf(ref), Min(ShapesIn(WindowOf(ref))))
  IN <<start + m.index, start + m.index + m.length>>

\* C2: every occurrence of a reference that no match accounts for gets
\* exactly one diagnostic: an Error with the canonical tag as fix over the
\* span of the first typo shape of its window when there is one, otherwise a
\* Warning without fix; never both
C2_OneDiagnosticPerReference ==
  hasEntry =>
    \A r \in Indexes(References) :
      LET ref == References[r]
          same == {q \in Indexes(References) : References[q].path = ref.path}
      IN Unaccounted(ref) =>
           IF ShapesIn(WindowOf(ref)) # {}
             THEN /\ Cardinality(ErrorsFor(ref.path)) = Cardinality(same)
                  /\ \E k \in ErrorsFor(ref.path) :
                       /\ diagnostics[k].severity = "Error"
                       /\ diagnostics[k].range.offsets = FirstShapeSpan(ref)
                       /\ diagnostics[k].code.target.newText = CanonicalTag(ref.path)
                  /\ WarningsAt(ref) = {}
             ELSE /\ Cardinality(WarningsAt(ref)) = 1
                  /\ \A k \in WarningsAt(ref) :
                       /\ diagnostics[k].severity = "Warning"
                       /\ diagnostics[k].code = NoCode
                  /\ ErrorsFor(ref.path) = {}

\* the tag of a match with its captured path rewritten: the attribute value
\* of the tag is replaced, wherever else the same text occurs
PathRewritten(image, newPath) ==
  LET m == ImgTagAt(image.fullMatch, 1, LitSrcAttr)
  IN SubSeq(image.fullMatch, 1, m.open - 1) \o newPath
     \o SubSeq(image.fullMatch, m.close, Len(image.fullMatch))

\* the tag of a match with the first occurrence of the text of its path
\* replaced
FirstOccurrenceRewritten(image, newPath) ==
  LET i == Min({j \in 1..Len(image.fullMatch) : HasExact(image.fullMatch, j, image.src)})
  IN SubSeq(image.fullMatch, 1, i - 1) \o newPath
     \o SubSeq(image.fullMatch, i + Len(image.src), Len(image.fullMatch))

InExpectedFolder(path) ==
  \E i \in 1..(Len(path) + 1) : HasExact(path, i, ExpectedFolder)

CorrectedPath(image) == ExpectedFolder \o <<"/">> \o Basename(image.src)

FolderDiags == {k \in Indexes(diagnostics) : IsFolderDiag(diagnostics[k])}

\* the folder Warning of a match, with the fix a canonical match carries
FolderWarningOf(image, fixedTag) ==
  [range |-> [start |-> image.index, end |-> image.index + Len(image.fullMatch),
              offsets |-> SpanOf(image)],
   message |-> [text |-> "Image source should be in <folder> folder",
                args |-> <<ExpectedFolder>>],
   severity |-> "Warning",
   source |-> Source,
   code |-> IF image.hasScAttribute THEN NoCode
            ELSE [value |-> "fix-image-folder",
                  target |-> [uri |-> doc.uri,
                              range |-> [start |-> image.index,
                                         end |-> image.index + Len(image.fullMatch),
                                         offsets |-> SpanOf(image)],
                              newText |-> fixedTag]]]

\* the folder Warnings are those of the matches of Outside, one each and in
\* match order, with the fix that Fixed gives
FolderWarningsAre(Outside(_), Fixed(_)) ==
  LET out == SelectSeq([j \in Indexes(Images) |-> j], LAMBDA j : Outside(Images[j]))
  IN SelectSeq(diagnostics, IsFolderDiag)
       = [n \in Indexes(out) |-> FolderWarningOf(Images[out[n]], Fixed(Images[out[n]]))]

OutsideFolder(image) == ~InExpectedFolder(image.src)

OutsideFolderNonEmpty(image) == image.src # <<>> /\ ~InExpectedFolder(image.src)

FixedByPath(image) == PathRewritten(image, CorrectedPath(image))

FixedByFirstOccurrence(image) == FirstOccurrenceRewritten(image, CorrectedPath(image))

C4_FolderFixIdempotent ==
  hasEntry =>
    \A k \in FolderDiags :
      diagnostics[k].code.value = "fix-image-folder" =>
        LET d == diagnostics[k]
            fixed == ApplyEdit(text, d.range, d.code.target.newText)
            m == ImgTagAt(fixed, d.range.start + 1, LitSrcAttr)
        IN /\ m.ok
           /\ InExpectedFolder(SubSeq(fixed, m.open, m.close - 1))

\* the matches that carry a numeric id, and the id of a match
HasId(image) == NumberDigits(image.src) # <<>>

IdOf(image) == ParseInt(NumberDigits(image.src))

Carriers(images, id) ==
  {j \in Indexes(images) : HasId(images[j]) /\ IdOf(images[j]) = id}

Ids(images) == {IdOf(images[j]) : j \in {j \in Indexes(images) : HasId(images[j])}}

\* the decimal numeral of a number, and the numeral padded with zeros to two
\* digits
Numeral(n) == NumToStr(n)

TwoDigits(n) == IF n < 10 THEN <<"0", DigitChars[n + 1]>> ELSE Numeral(n)

DuplicateDiags(diags) == {k \in Indexes(diags) : IsDuplicateDiag(diags[k])}

\* the duplicate Errors among diags that name an id
DuplicatesOf(diags, id) ==
  {k \in DuplicateDiags(diags) : diags[k].message.args[1] = Numeral(id)}

\* the duplicate Errors among diags are those the ids of the matches call for
DuplicatesReported(images, diags) ==
  /\ \A id \in Ids(images) :
       IF Cardinality(Carriers(images, id)) > 1
         THEN /\ Cardinality(DuplicatesOf(diags, id)) = 1
              /\ \A k \in DuplicatesOf(diags, id) :
                   /\ diags[k].severity = "Error"
                   /\ diags[k].message.args
                        = <<Numeral(id), Numeral(Cardinality(Carriers(images, id)))>>
                   /\ diags[k].range.offsets
                        = SpanOf(images[Max(Carriers(images, id))])
         ELSE DuplicatesOf(diags, id) = {}
  /\ \A k \in DuplicateDiags(diags) :
       \E id \in Ids(images) : diags[k].message.args[1] = Numeral(id)

\* C5: for every id parsed from more than one match there is exactly one
\* Error 'Duplicate image number: <id> is used <count> times', count being
\* the number of matches with the id, at the last match in list order that
\* carries the id; there is none for an id that occurs once, and matches
\* without an id are ignored
C5_DuplicateImageNumbers == hasEntry => DuplicatesReported(Images, diagnostics)

\* an id is carried by two matches and the last one in list order stands
\* first in the text
LastStandsFirst(images) ==
  \E id \in Ids(images) :
    /\ Cardinality(Carriers(images, id)) > 1
    /\ images[Max(Carriers(images, id))].index < images[Min(Carriers(images, id))].index

\* a validated text in which an id is carried by two matches and the last
\* one in list order stands first in the text
C5_Witness ==
  /\ hasEntry
  /\ DuplicateDiags(diagnostics) # {}
  /\ LastStandsFirst(Images)

\* the indexes of the matches that carry an id
IdCarriers(images) ==
  SelectSeq([j \in Indexes(images) |-> j], LAMBDA j : HasId(images[j]))

\* the number of ids below a value, and up to it
IdsBelow(images, idx, v) == Cardinality({n \in Indexes(idx) : IdOf(images[idx[n]]) < v})

IdsUpTo(images, idx, v) == Cardinality({n \in Indexes(idx) : IdOf(images[idx[n]]) <= v})

NthSmallest(images, idx, ids) ==
  [n \in Indexes(idx) |->
     CHOOSE v \in ids : IdsBelow(images, idx, v) < n /\ n <= IdsUpTo(images, idx, v)]

\* the ids in ascending order, duplicates kept: the n-th smallest id
SortedIds(images) == NthSmallest(images, IdCarriers(images), Ids(images))

\* the adjacent pairs of the sorted ids that are not consecutive, each named
\* by the index of its later id
GapPairs(sorted) ==
  SelectSeq([n \in 1..(Len(sorted) - 1) |-> n + 1],
            LAMBDA n : sorted[n] # sorted[n - 1] + 1)

\* the gap Warnings are those of the pairs, one each and in order
GapsAt(images, sorted, pairs, gaps) ==
  /\ Len(gaps) = Len(pairs)
  /\ \A g \in Indexes(gaps) :
       /\ gaps[g].severity = "Warning"
       /\ gaps[g].code = NoCode
       /\ gaps[g].range.offsets
            = SpanOf(images[Max(Carriers(images, sorted[pairs[g]]))])
       /\ gaps[g].message.args
            = <<TwoDigits(sorted[pairs[g] - 1] + 1), TwoDigits(sorted[pairs[g]])>>

GapsOfSorted(images, sorted, diags) ==
  GapsAt(images, sorted, GapPairs(sorted), SelectSeq(diags, IsGapDiag))

GapsReported(images, diags) == GapsOfSorted(images, SortedIds(images), diags)

\* C6: one sequential-gap Warning for every adjacent pair of the sorted ids
\* (duplicates kept) whose later id is not the previous id + 1, at the match
\* recorded for the later id, naming previous + 1 and the later id padded to
\* two digits; none for a pair of consecutive ids; whatever the duplicate
\* and start-value checks reported
C6_SequentialGaps == hasEntry => GapsReported(Images, diagnostics)

\* a validated text where the duplicate, the start-value and the gap check
\* all reported
C6_Witness ==
  /\ hasEntry
  /\ DuplicateDiags(diagnostics) # {}
  /\ \E k \in Indexes(diagnostics) :
       diagnostics[k].message.text = "Image numbering should start with 01, found <found>"
  /\ \E k \in Indexes(diagnostics) : IsGapDiag(diagnostics[k])

ConsecutivePair(sorted) == \E n \in 2..Len(sorted) : sorted[n] = sorted[n - 1] + 1

\* a validated text with a pair of consecutive ids and no gap Warning
C6_WitnessNoGap ==
  /\ hasEntry
  /\ ConsecutivePair(SortedIds(Images))
  /\ ~\E k \in Indexes(diagnostics) : IsGapDiag(diagnostics[k])

\* a reference lies in the captured path of a canonical tag
InCanonicalTag(T, images, ref) ==
  \E j \in Indexes(images) :
    /\ ~images[j].hasScAttribute
    /\ LET m == ImgTagAt(T, images[j].index + 1, LitSrcAttr)
       IN /\ m.open <= ref.index + 1
          /\ ref.index + Len(ref.path) <= m.close - 1

\* the text is well formed: every reference sits in a canonical tag, there
\* is no tag with the near-miss attribute, every path lies in the expected
\* folder, the ids are 1..n without duplicates, every annotation is correct
WellFormed(T, refs, images, marks) ==
  /\ \A r \in Indexes(refs) : InCanonicalTag(T, images, refs[r])
  /\ \A j \in Indexes(images) :
       /\ ~images[j].hasScAttribute
       /\ InExpectedFolder(images[j].src)
       /\ HasId(images[j])
  /\ Ids(images) = 1..Len(images)
  /\ \A j \in Indexes(marks) : GrammarHolds(marks[j].points, marks[j].term)

WellFormedText == WellFormed(text, References, Images, Marks)

C9_RulesIndependent ==
  hasEntry =>
    diagnostics = markRule_validate(text, <<>>) \o imageRule_validate(text, doc, <<>>)

\* C10: the offsets of every diagnostic, as handed to positionAt, lie in the
\* text, start before end
C10_RangesInText ==
  hasEntry =>
    \A k \in Indexes(diagnostics) :
      /\ 0 <= diagnostics[k].range.offsets[1]
      /\ diagnostics[k].range.offsets[1] <= diagnostics[k].range.offsets[2]
      /\ diagnostics[k].range.offsets[2] <= Len(text)

\* C11: every fix of a diagnostic in the collection names the validated
\* document as its target, the fix of the mark rule included: the
\* placeholder is replaced by the uri of the document before the diagnostic
\* is stored
C11_FixTargetsDocument ==
  hasEntry =>
    \A k \in Indexes(diagnostics) :
      diagnostics[k].code.value # "" =>
        /\ diagnostics[k].code.target.uri # PlaceholderUri
        /\ diagnostics[k].code.target.uri = doc.uri

=============================================================================
